---- MODULE Spec2Model ----
(***************************************************************************)
(* Model of two parts of tensorforce:                                      *)
(*   - UpdateModifierWrapper (core/optimizers/update_modifier_wrapper.py), *)
(*     which builds a nested optimizer specification from four knobs and   *)
(*     instantiates its outermost layer;                                   *)
(*   - ConjugateGradient (core/optimizers/solvers/conjugate_gradient.py),  *)
(*     the start/step/next_step callbacks of the iterative solver, driven  *)
(*     by the solve loop of its base class Iterative.                      *)
(* Floating-point numbers are modelled as exact rationals <<num, den>>     *)
(* with den > 0 and gcd(num, den) = 1.                                     *)
(***************************************************************************)
EXTENDS Integers, Sequences, FiniteSets, TLC

(* ------------------------------------------------------------------ *)
(* Exact rational arithmetic standing for the float operations.        *)
(* ------------------------------------------------------------------ *)
Abs(n) == IF n < 0 THEN -n ELSE n

RECURSIVE GCD(_, _)
GCD(a, b) == IF b = 0 THEN a ELSE GCD(b, a % b)

Norm(n, d) ==
    LET g == GCD(Abs(n), d) IN <<n \div g, d \div g>>

Rat(n) == <<n, 1>>

RAdd(p, q) ==
    LET g == GCD(p[2], q[2])
    IN  Norm(p[1] * (q[2] \div g) + q[1] * (p[2] \div g), (p[2] \div g) * q[2])

RNeg(p) == <<-p[1], p[2]>>

RSub(p, q) == RAdd(p, RNeg(q))

RMul(p, q) ==
    LET g1 == GCD(Abs(p[1]), q[2])
        g2 == GCD(Abs(q[1]), p[2])
    IN  Norm((p[1] \div g1) * (q[1] \div g2), (p[2] \div g2) * (q[2] \div g1))

RInv(q) == IF q[1] > 0 THEN <<q[2], q[1]>> ELSE <<-q[2], -q[1]>>

RDiv(p, q) == RMul(p, RInv(q))

(* a/b < c/d for b, d > 0, by comparing integer parts and then the
   reciprocals of the fractional parts (no product is formed). *)
RECURSIVE FracLess(_, _, _, _)
FracLess(a, b, c, d) ==
    LET qa == a \div b
        qc == c \div d
        ra == a % b
        rc == c % d
    IN  IF qa # qc THEN qa < qc
        ELSE IF rc = 0 THEN FALSE
        ELSE IF ra = 0 THEN TRUE
        ELSE FracLess(d, rc, b, ra)

RLess(p, q) == FracLess(p[1], p[2], q[1], q[2])

RGeq(p, q) == ~RLess(p, q)

RMax(p, q) == IF RLess(p, q) THEN q ELSE p

RZero == Rat(0)

(* Optional values: None is the empty sequence, Some(v) a one-element one. *)
None == <<>>
Some(v) == <<v>>
IsNone(o) == Len(o) = 0
Get(o) == o[1]

(* ------------------------------------------------------------------ *)
(* Bounds of the model.                                                *)
(* ------------------------------------------------------------------ *)
MaxMultiStep == 3
MaxOptimizingIterations == 5
MaxUpdates == 1
MaxIterations == 2
MaxValue == 1

(* ------------------------------------------------------------------ *)
(* UpdateModifierWrapper                                               *)
(* ------------------------------------------------------------------ *)
VARIABLES
    call,        \* arguments of the UpdateModifierWrapper call
    wpc,         \* "call" | "returned" | "raised"
    optimizer,   \* local `optimizer` after line 56 (nested specification), Some/None
    instance,    \* object returned by the call, Some/None
    error,       \* exception raised by the call, "" if none
    updates      \* training steps run with the returned optimizer

wvars == <<call, wpc, optimizer, instance, error, updates>>

VARIABLES
    values_spec,     \* per key, the number of elements of that key's tensor
    A,               \* the linear operator behind fn_x, a square integer matrix
    x_init,          \* argument x_init of solve, Some/None
    b,               \* argument b of solve
    max_iterations,  \* resolved value of the max_iterations parameter
    damping,         \* value of the damping parameter
    pc,              \* per solver instance: "idle" | "loop" | "returned" | "raised"
    args,            \* per instance: the loop variables (x, conjugate, residual, squared_residual)
    iteration,       \* per instance: loop iterations started
    steps,           \* per instance: invocations of step
    fn_x_calls,      \* per instance: invocations of fn_x
    exception,       \* per instance: the exception solve raised, "" if none
    solution,        \* per instance: the value solve returned, Some/None
    damping_at_solve,  \* per instance: the value of damping when solve was called
    damping_reads    \* per instance: the values self.damping.value() returned, in order

VARIABLES
    b_other,         \* argument b of a second call with otherwise equal arguments
    twin             \* per instance: the state of that second call

tvars == <<b_other, twin>>

svars == <<values_spec, A, x_init, b, max_iterations, damping, pc, args, iteration,
           steps, fn_x_calls, exception, solution, damping_at_solve, damping_reads,
           b_other, twin>>

vars == <<call, wpc, optimizer, instance, error, updates, values_spec, A, x_init, b,
          max_iterations, damping, pc, args, iteration, steps, fn_x_calls, exception,
          solution, damping_at_solve, damping_reads, b_other, twin>>

(* Registered optimizer type names (tensorforce.core.optimizer_modules). *)
optimizer_modules ==
    {"adam", "natural_gradient", "optimizing_step", "clipping_step",
     "subsampling_step", "multi_step"}

OptimizerNames == {"adam", "natural_gradient", "bogus"}

KwargsSet == {[learning_rate |-> <<3, 10000>>], [x \in {} |-> 0]}

Merge(f, g) ==
    [k \in DOMAIN f \cup DOMAIN g |-> IF k \in DOMAIN g THEN g[k] ELSE f[k]]

(* lines 43-44: optimizer = dict(type=optimizer); optimizer.update(kwargs) *)
BaseSpec(name, kwargs) == Merge([type |-> name], kwargs)

(* Faulty variant: the line search is also added for optimizing_iterations = 0. *)
WrapOptimizingStepGE(spec, optimizing_iterations) ==
    IF optimizing_iterations >= 0
    THEN [type |-> "optimizing_step", optimizer |-> spec,
          ls_max_iterations |-> optimizing_iterations]
    ELSE spec

(* lines 45-48 *)
WrapOptimizingStep(spec, optimizing_iterations) ==
    IF optimizing_iterations > 0
    THEN [type |-> "optimizing_step", optimizer |-> spec,
          ls_max_iterations |-> optimizing_iterations]
    ELSE spec

(* lines 49-50 *)
WrapClippingStep(spec, clipping_threshold) ==
    IF ~IsNone(clipping_threshold)
    THEN [type |-> "clipping_step", optimizer |-> spec,
          threshold |-> Get(clipping_threshold)]
    ELSE spec

(* lines 51-54 *)
WrapSubsamplingStep(spec, subsampling_fraction) ==
    IF subsampling_fraction # Rat(1)
    THEN [type |-> "subsampling_step", optimizer |-> spec,
          fraction |-> subsampling_fraction]
    ELSE spec

(* lines 55-56 *)
WrapMultiStep(spec, multi_step) ==
    IF multi_step > 1
    THEN [type |-> "multi_step", optimizer |-> spec, num_steps |-> multi_step]
    ELSE spec

(* Faulty variant: clipping applied before the line search. *)
NestedSpecSwapped(c) ==
    WrapMultiStep(
        WrapSubsamplingStep(
            WrapOptimizingStep(
                WrapClippingStep(BaseSpec(c.optimizer, c.kwargs), c.clipping_threshold),
                c.optimizing_iterations),
            c.subsampling_fraction),
        c.multi_step)

(* lines 43-56: the nested specification, innermost layer applied first. *)
NestedSpec(c) ==
    WrapMultiStep(
        WrapSubsamplingStep(
            WrapClippingStep(
                WrapOptimizingStep(BaseSpec(c.optimizer, c.kwargs), c.optimizing_iterations),
                c.clipping_threshold),
            c.subsampling_fraction),
        c.multi_step)

(* Faulty variant: an unknown type name silently falls back to a default class. *)
LookupDefault(type) ==
    IF type \in optimizer_modules
    THEN [ok |-> TRUE, cls |-> type, error |-> ""]
    ELSE [ok |-> TRUE, cls |-> "adam", error |-> ""]

(* line 57: optimizer_modules[optimizer.pop('type')], a dict subscript. *)
Lookup(type) ==
    IF type \in optimizer_modules
    THEN [ok |-> TRUE, cls |-> type, error |-> ""]
    ELSE [ok |-> FALSE, cls |-> "", error |-> "KeyError"]

(* Constructor-side validation of a layer's own parameter. *)
ValidParams(spec) ==
    CASE spec.type = "optimizing_step" -> spec.ls_max_iterations >= 0
      [] spec.type = "clipping_step" -> RLess(RZero, spec.threshold)
      [] spec.type = "subsampling_step" ->
            RLess(RZero, spec.fraction) /\ RGeq(Rat(1), spec.fraction)
      [] spec.type = "multi_step" -> spec.num_steps >= 1
      [] OTHER -> TRUE

(* Module construction from a specification: the class of spec.type is   *)
(* resolved in the registry and constructs, and owns, its inner layer.   *)
RECURSIVE Construct(_)
Construct(spec) ==
    IF spec.type \notin optimizer_modules
    THEN [ok |-> FALSE, obj |-> None, error |-> "TensorforceError"]
    ELSE IF ~ValidParams(spec)
    THEN [ok |-> FALSE, obj |-> None, error |-> "TensorforceError"]
    ELSE IF "optimizer" \in DOMAIN spec
    THEN LET inner == Construct(spec.optimizer)
         IN  IF inner.ok
             THEN [ok |-> TRUE, error |-> "",
                   obj |-> Some([cls |-> spec.type, optimizer |-> Get(inner.obj)])]
             ELSE inner
    ELSE [ok |-> TRUE, error |-> "", obj |-> Some([cls |-> spec.type])]

(* lines 59-61: the call of optimizer_cls with the popped specification. *)
Instantiate(cls, spec) == Construct(Merge(spec, [type |-> cls]))

Calls ==
    [optimizer : OptimizerNames,
     kwargs : KwargsSet,
     multi_step : -1 .. MaxMultiStep,
     subsampling_fraction : {Rat(0), <<1, 2>>, Rat(1), <<3, 2>>},
     clipping_threshold : {None, Some(Rat(1)), Some(Rat(-1))},
     optimizing_iterations : -1 .. MaxOptimizingIterations]

WInit ==
    /\ call \in Calls
    /\ wpc = "call"
    /\ optimizer = None
    /\ instance = None
    /\ error = ""
    /\ updates = 0

(* The whole function body, lines 43-61. *)
UpdateModifierWrapper ==
    /\ wpc = "call"
    /\ LET spec == NestedSpec(call)
           found == Lookup(spec.type)
           made == IF found.ok THEN Instantiate(found.cls, spec)
                   ELSE [ok |-> FALSE, obj |-> None, error |-> found.error]
       IN  /\ optimizer' = Some(spec)
           /\ instance' = made.obj
           /\ error' = made.error
           /\ wpc' = IF made.ok THEN "returned" ELSE "raised"
    /\ UNCHANGED <<call, updates>>
    /\ UNCHANGED svars

(* A training step of the agent that owns the constructed optimizer. *)
TrainingStep ==
    /\ wpc = "returned"
    /\ ~IsNone(instance)
    /\ updates < MaxUpdates
    /\ updates' = updates + 1
    /\ UNCHANGED <<call, wpc, optimizer, instance, error>>
    /\ UNCHANGED svars

WNext == UpdateModifierWrapper \/ TrainingStep

(* ------------------------------------------------------------------ *)
(* ConjugateGradient and the solve loop of Iterative                   *)
(* ------------------------------------------------------------------ *)
(* The two solver instances differ in unroll_loop only. *)
Modes == BOOLEAN

(* util.epsilon *)
epsilon == <<1, 1000000>>

RECURSIVE RSum(_)
RSum(t) == IF Len(t) = 0 THEN RZero ELSE RAdd(t[1], RSum(Tail(t)))

(* tf.math.reduce_sum over one tensor *)
reduce_sum(t) == RSum(t)

(* tf.math.add_n: raises ValueError on an empty list of inputs. *)
add_n(inputs) == IF Len(inputs) = 0 THEN None ELSE Some(RSum(inputs))

(* NestedDict.fmap with zip_values, for the functions the solver maps:
   t - ft (line 213), t + c * u (lines 130, 149, 166), t - c * u (line 153). *)
fmap_sub(v, w) ==
    [k \in DOMAIN v |-> [i \in DOMAIN v[k] |-> RSub(v[k][i], w[k][i])]]

fmap_add_scaled(v, c, w) ==
    [k \in DOMAIN v |-> [i \in DOMAIN v[k] |-> RAdd(v[k][i], RMul(c, w[k][i]))]]

fmap_sub_scaled(v, c, w) ==
    [k \in DOMAIN v |-> [i \in DOMAIN v[k] |-> RSub(v[k][i], RMul(c, w[k][i]))]]

(* fmap of the two-argument lambda of line 138 without zip_values: the
   lambda is called with one argument for every key, a TypeError if there
   is a key (None); with no key the result is the empty structure. *)
fmap_missing_zip(v) == IF Len(v) = 0 THEN Some(v) ELSE None

RECURSIVE Flatten(_)
Flatten(v) == IF Len(v) = 0 THEN <<>> ELSE v[1] \o Flatten(Tail(v))

Offset(shape, k) == LET RECURSIVE Off(_)
                        Off(j) == IF j = 0 THEN 0 ELSE shape[j] + Off(j - 1)
                    IN  Off(k - 1)

Unflatten(f, shape) ==
    [k \in 1 .. Len(shape) |-> [i \in 1 .. shape[k] |-> f[Offset(shape, k) + i]]]

MatVec(M, f) ==
    [i \in 1 .. Len(M) |-> RSum([j \in 1 .. Len(f) |-> RMul(Rat(M[i][j]), f[j])])]

(* self.fn_x: the caller's linear operator v |-> A v *)
fn_x(v) == Unflatten(MatVec(A, Flatten(v)), values_spec)

(* Faulty variant: the default initial guess is b itself. *)
zeros_like_keep(t) == t

(* tf.zeros_like *)
zeros_like(t) == RZero

(* b.fmap(function=tf.zeros_like), line 208 *)
fmap_zeros_like(v) == [k \in DOMAIN v |-> [i \in DOMAIN v[k] |-> zeros_like(v[k][i])]]

(* Faulty variant: the residual entries are summed without being squared. *)
SquaredSumUnsquared(v) == add_n([k \in DOMAIN v |-> reduce_sum(v[k])])

(* r^T * r over the structure, lines 216-218 and 157-159 *)
SquaredSum(v) == add_n([k \in DOMAIN v |-> reduce_sum([i \in DOMAIN v[k] |-> RMul(v[k][i], v[k][i])])])

Raise(name) == [raised |-> name, args |-> None]
Return(a) == [raised |-> "", args |-> Some(a)]

(* Faulty variant: the initial residual is b - fn_x(x_init). *)
start_from_b(xi, bb) ==
    LET x0 == IF IsNone(xi) THEN fmap_zeros_like(bb) ELSE Get(xi)
        fx == fn_x(x0)
        residual == fmap_sub(bb, fx)
        squared_residual == SquaredSum(residual)
    IN  IF IsNone(squared_residual)
        THEN Raise("ValueError")
        ELSE Return([x |-> x0, conjugate |-> residual, residual |-> residual,
                     squared_residual |-> Get(squared_residual)])

(* ConjugateGradient.start, lines 206-220 *)
start(xi, bb) ==
    LET x0 == IF IsNone(xi) THEN fmap_zeros_like(bb) ELSE Get(xi)
        fx == fn_x(x0)
        residual == fmap_sub(x0, fx)
        squared_residual == SquaredSum(residual)
    IN  IF IsNone(squared_residual)
        THEN Raise("ValueError")
        ELSE Return([x |-> x0, conjugate |-> residual, residual |-> residual,
                     squared_residual |-> Get(squared_residual)])

(* Invocations of fn_x by one call of start (line 212). *)
FnXCallsOfStart(xi) == 1

(* Faulty variant: the damping branch evaluates fn_x a second time. *)
FnXCallsOfStepTwice(a) == 2

(* Invocations of fn_x by one call of step (line 120, before line 138). *)
FnXCallsOfStep(a) == 1

(* ConjugateGradient.next_step, lines 189-191 *)
next_step(a) == RGeq(a.squared_residual, epsilon)

(* ConjugateGradient.step, lines 119-173; d is the value read at line 123. *)
step(a, d) ==
    LET A_conjugate0 == fn_x(a.conjugate)
        A_conjugate == IF d = RZero
                       THEN A_conjugate0
                       ELSE fmap_add_scaled(A_conjugate0, d, a.conjugate)
        cAc_values == fmap_missing_zip(a.conjugate)
    IN  IF IsNone(cAc_values)
        THEN Raise("TypeError")
        ELSE
        LET cAc_sum == add_n([k \in DOMAIN Get(cAc_values) |-> reduce_sum(Get(cAc_values)[k])])
        IN  IF IsNone(cAc_sum)
            THEN Raise("ValueError")
            ELSE
            LET conjugate_A_conjugate == Get(cAc_sum)
                alpha == RDiv(a.squared_residual, RMax(conjugate_A_conjugate, epsilon))
                next_x == fmap_add_scaled(a.x, alpha, a.conjugate)
                next_residual == fmap_sub_scaled(a.residual, alpha, A_conjugate)
                next_squared_residual == SquaredSum(next_residual)
            IN  IF IsNone(next_squared_residual)
                THEN Raise("ValueError")
                ELSE
                LET beta == RDiv(Get(next_squared_residual), RMax(a.squared_residual, epsilon))
                    next_conjugate == fmap_add_scaled(next_residual, beta, a.conjugate)
                IN  Return([x |-> next_x, conjugate |-> next_conjugate,
                            residual |-> next_residual,
                            squared_residual |-> Get(next_squared_residual)])

(* Inputs of a solve call. *)
Shapes == {<<>>, <<1>>, <<2>>, <<1, 1>>}

RECURSIVE Dim(_)
Dim(shape) == IF Len(shape) = 0 THEN 0 ELSE shape[1] + Dim(Tail(shape))

Operators(n) ==
    CASE n = 0 -> {<<>>}
      [] n = 1 -> {<< <<0>> >>, << <<1>> >>, << <<2>> >>}
      [] OTHER -> {<< <<1, 0>>, <<0, 1>> >>, << <<2, 1>>, <<1, 2>> >>,
                   << <<1, 1>>, <<1, 1>> >>, << <<1, 0>>, <<0, 0>> >>,
                   << <<0, 1>>, <<1, 0>> >>}

IntValues == {Rat(v) : v \in 0 .. MaxValue}
GuessValues == IntValues \cup {<<1, 1000>>, <<1, 2000>>}

Structured(shape, S) ==
    {Unflatten(f, shape) : f \in [1 .. Dim(shape) -> S]}

DampingValues == {RZero, <<1, 2>>}

(* A call of solve that has not started. *)
TwinIdle ==
    [pc |-> "idle", args |-> None, iteration |-> 0, steps |-> 0, exception |-> "",
     solution |-> None]

SInit ==
    /\ values_spec \in Shapes
    /\ A \in Operators(Dim(values_spec))
    /\ x_init \in {None} \cup {Some(v) : v \in Structured(values_spec, GuessValues)}
    /\ b \in Structured(values_spec, IntValues)
    /\ max_iterations \in 0 .. MaxIterations
    /\ damping \in DampingValues
    /\ pc = [m \in Modes |-> "idle"]
    /\ args = [m \in Modes |-> None]
    /\ iteration = [m \in Modes |-> 0]
    /\ steps = [m \in Modes |-> 0]
    /\ fn_x_calls = [m \in Modes |-> 0]
    /\ exception = [m \in Modes |-> ""]
    /\ solution = [m \in Modes |-> None]
    /\ damping_at_solve = [m \in Modes |-> None]
    /\ damping_reads = [m \in Modes |-> <<>>]
    /\ b_other = b
    /\ twin = [m \in Modes |-> TwinIdle]

Inputs == <<values_spec, A, x_init, b, max_iterations, damping>>

(* Iterative.solve up to the loop: self.fn_x = fn_x; args = self.start(...).
   Calls are synchronous: no other call of solve is in progress. *)
SolveCall(m) ==
    /\ \A n \in Modes : pc[n] # "loop"
    /\ pc[m] = "idle"
    /\ LET r == start(x_init, b)
       IN  /\ fn_x_calls' = [fn_x_calls EXCEPT ![m] = FnXCallsOfStart(x_init)]
           /\ args' = [args EXCEPT ![m] = r.args]
           /\ exception' = [exception EXCEPT ![m] = r.raised]
           /\ pc' = [pc EXCEPT ![m] = IF r.raised = "" THEN "loop" ELSE "raised"]
    /\ damping_at_solve' = [damping_at_solve EXCEPT ![m] = Some(damping)]
    /\ UNCHANGED <<Inputs, iteration, steps, solution, damping_reads>>
    /\ UNCHANGED wvars

Solve(m) == SolveCall(m) /\ UNCHANGED tvars

(* One invocation of step on the loop variables of instance m. *)
InvokeStep(m) ==
    LET r == step(Get(args[m]), damping)
    IN  /\ steps' = [steps EXCEPT ![m] = @ + 1]
        /\ fn_x_calls' = [fn_x_calls EXCEPT ![m] = @ + FnXCallsOfStep(Get(args[m]))]
        /\ damping_reads' = [damping_reads EXCEPT ![m] = Append(@, damping)]
        /\ iteration' = [iteration EXCEPT ![m] = @ + 1]
        /\ IF r.raised = ""
           THEN /\ args' = [args EXCEPT ![m] = r.args]
                /\ UNCHANGED <<pc, exception>>
           ELSE /\ pc' = [pc EXCEPT ![m] = "raised"]
                /\ exception' = [exception EXCEPT ![m] = r.raised]
                /\ UNCHANGED args

(* Faulty variant: the unrolled loop runs step in every iteration. *)
UnrolledGateOpen(m) == TRUE

(* The per-iteration gate of the unrolled loop: the same next_step predicate. *)
UnrolledGate(m) == next_step(Get(args[m]))

(* Dynamically-bounded loop: the body runs while next_step holds, at most
   max_iterations times. *)
WhileCond(m) == iteration[m] < max_iterations /\ next_step(Get(args[m]))

WhileBodyCall(m) ==
    /\ m = FALSE
    /\ pc[m] = "loop"
    /\ WhileCond(m)
    /\ InvokeStep(m)
    /\ UNCHANGED <<Inputs, solution, damping_at_solve>>
    /\ UNCHANGED wvars

WhileBody(m) == WhileBodyCall(m) /\ UNCHANGED tvars

(* Unrolled loop: max_iterations iterations, each gated on next_step. *)
UnrolledIterationCall(m) ==
    /\ m = TRUE
    /\ pc[m] = "loop"
    /\ iteration[m] < max_iterations
    /\ IF UnrolledGate(m)
       THEN InvokeStep(m)
       ELSE /\ iteration' = [iteration EXCEPT ![m] = @ + 1]
            /\ UNCHANGED <<args, steps, fn_x_calls, pc, exception, damping_reads>>
    /\ UNCHANGED <<Inputs, solution, damping_at_solve>>
    /\ UNCHANGED wvars

UnrolledIteration(m) == UnrolledIterationCall(m) /\ UNCHANGED tvars

LoopDone(m) ==
    IF m THEN iteration[m] >= max_iterations ELSE ~WhileCond(m)

(* end: the solution component of the loop variables is returned. *)
EndCall(m) ==
    /\ pc[m] = "loop"
    /\ LoopDone(m)
    /\ solution' = [solution EXCEPT ![m] = Some(Get(args[m]).x)]
    /\ pc' = [pc EXCEPT ![m] = "returned"]
    /\ UNCHANGED <<Inputs, args, iteration, steps, fn_x_calls, exception,
                   damping_at_solve, damping_reads>>
    /\ UNCHANGED wvars

End(m) == EndCall(m) /\ UNCHANGED tvars

SNext == \E m \in Modes : Solve(m) \/ WhileBody(m) \/ UnrolledIteration(m) \/ End(m)

(* ------------------------------------------------------------------ *)
(* Specifications: each part runs with the other part at rest.         *)
(* ------------------------------------------------------------------ *)
SRest ==
    /\ values_spec = <<>>
    /\ A = <<>>
    /\ x_init = None
    /\ b = <<>>
    /\ max_iterations = 0
    /\ damping = RZero
    /\ pc = [m \in Modes |-> "idle"]
    /\ args = [m \in Modes |-> None]
    /\ iteration = [m \in Modes |-> 0]
    /\ steps = [m \in Modes |-> 0]
    /\ fn_x_calls = [m \in Modes |-> 0]
    /\ exception = [m \in Modes |-> ""]
    /\ solution = [m \in Modes |-> None]
    /\ damping_at_solve = [m \in Modes |-> None]
    /\ damping_reads = [m \in Modes |-> <<>>]
    /\ b_other = <<>>
    /\ twin = [m \in Modes |-> TwinIdle]

WRest ==
    /\ call = [optimizer |-> "adam", kwargs |-> [x \in {} |-> 0], multi_step |-> 1,
               subsampling_fraction |-> Rat(1), clipping_threshold |-> None,
               optimizing_iterations |-> 0]
    /\ wpc = "call"
    /\ optimizer = None
    /\ instance = None
    /\ error = ""
    /\ updates = 0

InitWrapper == WInit /\ SRest

SpecWrapper == InitWrapper /\ [][WNext]_vars

InitSolve == SInit /\ WRest

SpecSolve == InitSolve /\ [][SNext]_vars

(* The damping parameter is a schedule owned by the parameter subsystem: its
   value may move while a call of solve is in progress. *)
ScheduleChange ==
    /\ \E m \in Modes : pc[m] = "loop"
    /\ damping' \in DampingValues \ {damping}
    /\ UNCHANGED <<values_spec, A, x_init, b, max_iterations, pc, args, iteration,
                   steps, fn_x_calls, exception, solution, damping_at_solve,
                   damping_reads>>
    /\ UNCHANGED tvars
    /\ UNCHANGED wvars

ScheduleNext == SNext \/ ScheduleChange

SpecSchedule == InitSolve /\ [][ScheduleNext]_vars

(* ---- a second call with the same arguments except the values of b ---- *)
OtherValues == {Rat(MaxValue + 1), Rat(0 - 1)}

TwinInit ==
    /\ values_spec \in Shapes
    /\ A \in Operators(Dim(values_spec))
    /\ x_init \in {None} \cup {Some(v) : v \in Structured(values_spec, IntValues)}
    /\ b \in Structured(values_spec, IntValues)
    /\ b_other \in Structured(values_spec, OtherValues)
    /\ max_iterations \in 0 .. MaxIterations
    /\ damping \in DampingValues
    /\ pc = [m \in Modes |-> "idle"]
    /\ args = [m \in Modes |-> None]
    /\ iteration = [m \in Modes |-> 0]
    /\ steps = [m \in Modes |-> 0]
    /\ fn_x_calls = [m \in Modes |-> 0]
    /\ exception = [m \in Modes |-> ""]
    /\ solution = [m \in Modes |-> None]
    /\ damping_at_solve = [m \in Modes |-> None]
    /\ damping_reads = [m \in Modes |-> <<>>]
    /\ twin = [m \in Modes |-> TwinIdle]

(* solve up to the loop, on b_other *)
TwinStart(t) ==
    LET r == start(x_init, b_other)
    IN  [t EXCEPT !.args = r.args, !.exception = r.raised,
                  !.pc = IF r.raised = "" THEN "loop" ELSE "raised"]

(* one invocation of step by the second call *)
TwinStep(t) ==
    LET r == step(Get(t.args), damping)
    IN  IF r.raised = ""
        THEN [t EXCEPT !.args = r.args, !.iteration = @ + 1, !.steps = @ + 1]
        ELSE [t EXCEPT !.pc = "raised", !.exception = r.raised,
                       !.iteration = @ + 1, !.steps = @ + 1]

TwinEnd(t) == [t EXCEPT !.pc = "returned", !.solution = Some(Get(t.args).x)]

(* The next transition of the second call, decided on its own state:
   m = TRUE is the unrolled loop, m = FALSE the while loop. *)
TwinAdvance(t, m) ==
    CASE t.pc = "idle" -> TwinStart(t)
      [] t.pc = "loop" ->
            IF m
            THEN IF t.iteration < max_iterations
                 THEN IF next_step(Get(t.args))
                      THEN TwinStep(t)
                      ELSE [t EXCEPT !.iteration = @ + 1]
                 ELSE TwinEnd(t)
            ELSE IF t.iteration < max_iterations /\ next_step(Get(t.args))
                 THEN TwinStep(t)
                 ELSE TwinEnd(t)
      [] OTHER -> t

TwinFollows(m) ==
    /\ twin' = [twin EXCEPT ![m] = TwinAdvance(@, m)]
    /\ UNCHANGED b_other

(* Both calls take their next transition together. *)
TwinSolve(m) == SolveCall(m) /\ TwinFollows(m)

TwinWhileBody(m) == WhileBodyCall(m) /\ TwinFollows(m)

TwinUnrolledIteration(m) == UnrolledIterationCall(m) /\ TwinFollows(m)

TwinEndLoop(m) == EndCall(m) /\ TwinFollows(m)

TwinNext ==
    \E m \in Modes :
        TwinSolve(m) \/ TwinWhileBody(m) \/ TwinUnrolledIteration(m) \/ TwinEndLoop(m)

InitTwin == TwinInit /\ WRest

SpecTwin == InitTwin /\ [][TwinNext]_vars


(* ------------------------------------------------------------------ *)
(* Claims about UpdateModifierWrapper (checked under SpecWrapper).     *)
(* ------------------------------------------------------------------ *)
(* Type tags of a nested specification, outermost first. *)
RECURSIVE SpecTags(_)
SpecTags(spec) ==
    IF "optimizer" \in DOMAIN spec
    THEN <<spec.type>> \o SpecTags(spec.optimizer)
    ELSE <<spec.type>>

(* Classes of a constructed optimizer chain, outermost first. *)
RECURSIVE ObjectTags(_)
ObjectTags(obj) ==
    IF "optimizer" \in DOMAIN obj
    THEN <<obj.cls>> \o ObjectTags(obj.optimizer)
    ELSE <<obj.cls>>

WrapperKinds == {"optimizing_step", "clipping_step", "subsampling_step", "multi_step"}

(* Position of a layer in the documented order; the base optimizer is 0. *)
OrderRank(type) ==
    CASE type = "optimizing_step" -> 1
      [] type = "clipping_step" -> 2
      [] type = "subsampling_step" -> 3
      [] type = "multi_step" -> 4
      [] OTHER -> 0

Built == ~IsNone(optimizer)
Tags == SpecTags(Get(optimizer))

(* C1: the enabled layers nest in the fixed order, innermost to outermost:
   base optimizer, optimizing_step, clipping_step, subsampling_step,
   multi_step; the innermost layer is the base optimizer, the constructed
   object has the same nesting, and multi_step=3 with clipping_threshold=1.0
   gives multi_step around clipping_step around the base optimizer. *)
C1_NestingOrder ==
    Built =>
        /\ \A i, j \in 1 .. Len(Tags) : i < j => OrderRank(Tags[i]) > OrderRank(Tags[j])
        /\ Tags[Len(Tags)] = call.optimizer
        /\ ~IsNone(instance) => ObjectTags(Get(instance)) = Tags
        /\ ( /\ call.multi_step = 3
             /\ call.clipping_threshold = Some(Rat(1))
             /\ call.subsampling_fraction = Rat(1)
             /\ call.optimizing_iterations = 0 )
           => Tags = <<"multi_step", "clipping_step", call.optimizer>>

C1_Witness ==
    /\ wpc = "returned"
    /\ Len(ObjectTags(Get(instance))) = 5
    /\ call.multi_step = 3

(* C2: a wrapping layer is present only if its knob differs from its
   disabled value, each kind appears at most once; only
   optimizing_iterations=5 gives one line-search layer around the base
   optimizer, and all knobs disabled gives the base optimizer class itself. *)
C2_OnlyEnabledLayers ==
    Built =>
        /\ \A i \in 1 .. Len(Tags) - 1 :
              /\ Tags[i] \in WrapperKinds
              /\ Tags[i] = "optimizing_step" => call.optimizing_iterations # 0
              /\ Tags[i] = "clipping_step" => ~IsNone(call.clipping_threshold)
              /\ Tags[i] = "subsampling_step" => call.subsampling_fraction # Rat(1)
              /\ Tags[i] = "multi_step" => call.multi_step # 1
        /\ \A k \in WrapperKinds :
              Cardinality({i \in 1 .. Len(Tags) - 1 : Tags[i] = k}) <= 1
        /\ ( /\ call.optimizing_iterations = 5
             /\ IsNone(call.clipping_threshold)
             /\ call.subsampling_fraction = Rat(1)
             /\ call.multi_step = 1 )
           => /\ Tags = <<"optimizing_step", call.optimizer>>
              /\ wpc = "returned" => ObjectTags(Get(instance)) = Tags
        /\ ( /\ call.optimizing_iterations = 0
             /\ IsNone(call.clipping_threshold)
             /\ call.subsampling_fraction = Rat(1)
             /\ call.multi_step = 1 )
           => /\ Tags = <<call.optimizer>>
              /\ wpc = "returned" => Get(instance) = [cls |-> call.optimizer]

C2_Witness ==
    /\ wpc = "returned"
    /\ call.optimizing_iterations = 5
    /\ IsNone(call.clipping_threshold)
    /\ call.subsampling_fraction = Rat(1)
    /\ call.multi_step = 1
    /\ ObjectTags(Get(instance)) = <<"optimizing_step", call.optimizer>>

(* C3: an unknown base optimizer name makes the call raise, whatever the
   knobs: no object is returned and no training step ever runs with it. *)
C3_UnknownTypeRaises ==
    (call.optimizer \notin optimizer_modules /\ wpc # "call") =>
        /\ wpc = "raised"
        /\ error \in {"KeyError", "TensorforceError"}
        /\ IsNone(instance)
        /\ updates = 0

C3_Witness ==
    /\ wpc = "raised"
    /\ call.optimizer \notin optimizer_modules
    /\ error = "KeyError"
    /\ Tags = <<call.optimizer>>

(* Knob values outside the documented domains (docstring, lines 29-36). *)
InvalidKnob(c) ==
    \/ c.multi_step < 1
    \/ c.optimizing_iterations < 0
    \/ ~(RLess(RZero, c.subsampling_fraction) /\ RGeq(Rat(1), c.subsampling_fraction))
    \/ (~IsNone(c.clipping_threshold) /\ ~RLess(RZero, Get(c.clipping_threshold)))

(* C4: an invalid knob value (e.g. a negative multi_step) is raised as an
   error at construction, before any training step runs. *)
C4_InvalidKnobRaises ==
    (InvalidKnob(call) /\ wpc # "call") => (wpc = "raised" /\ updates = 0)

(* ------------------------------------------------------------------ *)
(* Claims about ConjugateGradient.solve (checked under SpecSolve).     *)
(* ------------------------------------------------------------------ *)
Finished(m) == pc[m] \in {"returned", "raised"}

(* A v for a structured value v, with v's structure. *)
ATimes(v) == Unflatten(MatVec(A, Flatten(v)), values_spec)

(* Sum over all keys and elements of the squares of v - w. *)
SquaredDistance(v, w) ==
    LET dv == Flatten(v)
        dw == Flatten(w)
    IN  RSum([i \in DOMAIN dv |-> RMul(RSub(dv[i], dw[i]), RSub(dv[i], dw[i]))])

(* A is symmetric positive definite (dimension 1 or 2). *)
IsSPD ==
    /\ Len(A) \in {1, 2}
    /\ \A i, j \in 1 .. Len(A) : A[i][j] = A[j][i]
    /\ A[1][1] > 0
    /\ Len(A) = 2 => A[1][1] * A[2][2] - A[1][2] * A[2][1] > 0

Converged(m) == RLess(Get(args[m]).squared_residual, epsilon)

(* C5: for symmetric positive-definite A on a single-key structure of
   dimension n and max_iterations >= n, the x that solve returns satisfies
   A x = b up to a squared residual norm below epsilon. *)
C5_SolvesLinearSystem ==
    \A m \in Modes :
        ( /\ Len(values_spec) = 1
          /\ IsSPD
          /\ damping = RZero
          /\ max_iterations >= Dim(values_spec)
          /\ pc[m] = "returned" )
        => RLess(SquaredDistance(ATimes(Get(solution[m])), b), epsilon)

(* C6: with max_iterations = 0 step is never invoked and solve returns the
   x of start's output: x_init when given, else the all-zero value with b's
   structure. *)
C6_ZeroIterations ==
    \A m \in Modes :
        max_iterations = 0 =>
            /\ steps[m] = 0
            /\ pc[m] = "returned" =>
                  /\ solution[m] = Some(Get(args[m]).x)
                  /\ ~IsNone(x_init) => Get(solution[m]) = Get(x_init)
                  /\ IsNone(x_init) =>
                        /\ DOMAIN Get(solution[m]) = DOMAIN b
                        /\ \A k \in DOMAIN b :
                              /\ DOMAIN Get(solution[m])[k] = DOMAIN b[k]
                              /\ \A i \in DOMAIN b[k] : Get(solution[m])[k][i] = <<0, 1>>

C6_Witness ==
    /\ max_iterations = 0
    /\ \A m \in Modes : pc[m] = "returned" /\ steps[m] = 0 /\ ~Converged(m)
    /\ ~IsNone(x_init)

(* C7: the two loop modes end a call on the same inputs in the same way,
   with the identical final x whenever they return one; and an iteration
   of the unrolled loop that finds the squared residual below epsilon
   leaves the loop variables unchanged and runs no step. *)
ModesAgree ==
    (Finished(TRUE) /\ Finished(FALSE)) =>
        /\ pc[TRUE] = pc[FALSE]
        /\ solution[TRUE] = solution[FALSE]
        /\ exception[TRUE] = exception[FALSE]

ConvergedIsNoOp ==
    (pc[TRUE] = "loop" /\ Converged(TRUE)) =>
        /\ args'[TRUE] = args[TRUE]
        /\ steps'[TRUE] = steps[TRUE]
        /\ pc'[TRUE] \in {"loop", "returned"}

C7_ModesProduceSameX == [](ModesAgree) /\ [][ConvergedIsNoOp]_vars

C7_Witness ==
    /\ pc[TRUE] = "returned"
    /\ pc[FALSE] = "returned"
    /\ iteration[TRUE] = 2
    /\ steps[TRUE] = 0
    /\ solution[TRUE] = solution[FALSE]
    /\ \E k \in DOMAIN Get(solution[TRUE]) : \E i \in DOMAIN Get(solution[TRUE])[k] :
          Get(solution[TRUE])[k][i] # <<0, 1>>

(* C8: a solve call runs step at most max_iterations times, stops the loop
   only when the squared residual is below epsilon or the budget is used
   up, and returns the current x without raising an error. *)
C8_TerminatesWithoutError ==
    \A m \in Modes :
        /\ steps[m] <= max_iterations
        /\ Len(values_spec) > 0 => pc[m] # "raised"
        /\ pc[m] = "returned" => (Converged(m) \/ steps[m] = max_iterations)

(* C9: with an empty-structure b, start and the first next_step check
   complete normally and solve ends immediately with squared_residual = 0. *)
C9_EmptyStructure ==
    \A m \in Modes :
        Len(values_spec) = 0 =>
            /\ pc[m] # "raised"
            /\ pc[m] \in {"loop", "returned"} =>
                  /\ Get(args[m]).squared_residual = <<0, 1>>
                  /\ steps[m] = 0

(* C10: at the start of each iteration, including right after start, the
   loop variables satisfy residual = b - A x. *)
C10_ResidualInvariant ==
    \A m \in Modes :
        pc[m] = "loop" =>
            Get(args[m]).residual = fmap_sub(b, ATimes(Get(args[m]).x))

(* C12: fn_x is invoked once by start and once by every executed step, so a
   call of solve has made 1 + steps invocations at every point after start;
   evaluating next_step and returning from the loop add none. *)
C12_FnXCallCount ==
    \A m \in Modes :
        fn_x_calls[m] = IF pc[m] = "idle" THEN 0 ELSE 1 + steps[m]

(* A call that executed one step and has counted two invocations. *)
C12_Witness ==
    \E m \in Modes : pc[m] # "idle" /\ steps[m] = 1 /\ fn_x_calls[m] = 2

(* The sum of the squares of the entries of a flat vector. *)
RECURSIVE SumOfSquares(_)
SumOfSquares(f) ==
    IF Len(f) = 0 THEN RZero ELSE RAdd(RMul(f[1], f[1]), SumOfSquares(Tail(f)))

(* C14: in every state that start or step has produced, squared_residual is
   the exact sum of the squares of the entries of that state's residual. *)
C14_SquaredResidualMatches ==
    \A m \in Modes :
        ~IsNone(args[m]) =>
            Get(args[m]).squared_residual = SumOfSquares(Flatten(Get(args[m]).residual))

(* A produced state whose residual has an entry that squaring changes. *)
C14_Witness ==
    \E m \in Modes :
        /\ ~IsNone(args[m])
        /\ Get(args[m]).squared_residual # RSum(Flatten(Get(args[m]).residual))
        /\ Get(args[m]).squared_residual = SumOfSquares(Flatten(Get(args[m]).residual))

(* The inner product of two structures of equal shape. *)
Dot(v, w) ==
    RSum([i \in 1 .. Len(Flatten(v)) |-> RMul(Flatten(v)[i], Flatten(w)[i])])

(* The conjugate gradient iteration on the operator fn_x + d * identity, as
   the comments of lines 119-166 state it; d = 0 is the undamped iteration. *)
DampedCGStep(a, d) ==
    LET Ac == fmap_add_scaled(fn_x(a.conjugate), d, a.conjugate)
        cAc == Dot(a.conjugate, Ac)
        alpha == RDiv(a.squared_residual, RMax(cAc, epsilon))
        next_residual == fmap_sub_scaled(a.residual, alpha, Ac)
        next_squared_residual == Dot(next_residual, next_residual)
        beta == RDiv(next_squared_residual, RMax(a.squared_residual, epsilon))
    IN  [x |-> fmap_add_scaled(a.x, alpha, a.conjugate),
         conjugate |-> fmap_add_scaled(next_residual, beta, a.conjugate),
         residual |-> next_residual,
         squared_residual |-> next_squared_residual]

(* C13: an invocation of step produces the next state of the conjugate
   gradient iteration: the undamped one when damping is 0, and the one whose
   conjugate_A_conjugate includes damping * conj * conj when damping > 0. *)
C13_StepProducesCGState ==
    [][\A m \in Modes :
          steps'[m] = steps[m] + 1 =>
              /\ exception'[m] = ""
              /\ args'[m] = Some(DampedCGStep(Get(args[m]), damping))]_vars

(* C11: every iteration of one call of solve uses the damping value that was
   current when the call started, whatever the schedule does during the call. *)
C11_DampingFixedPerSolve ==
    \A m \in Modes :
        \A i \in DOMAIN damping_reads[m] :
            damping_reads[m][i] = Get(damping_at_solve[m])

(* The state of the call on b, in the shape of the record of the second call. *)
CallState(m) ==
    [pc |-> pc[m], args |-> args[m], iteration |-> iteration[m], steps |-> steps[m],
     exception |-> exception[m], solution |-> solution[m]]

(* C15: the values of b do not influence solve. Two calls that differ in the
   values of b only are in the same state after every transition and return
   the same x; with x_init unset and a non-empty structure the call returns
   the all-zero value of the structure, for every b and max_iterations. *)
C15_BValuesDoNotInfluence ==
    \A m \in Modes :
        /\ twin[m] = CallState(m)
        /\ (IsNone(x_init) /\ Len(values_spec) > 0) => pc[m] # "raised"
        /\ (IsNone(x_init) /\ pc[m] = "returned") =>
               solution[m] = Some(fmap_zeros_like(b))

(* Two finished calls on different non-zero b with x_init unset. *)
C15_Witness ==
    \E m \in Modes :
        /\ pc[m] = "returned" /\ twin[m].pc = "returned"
        /\ IsNone(x_init)
        /\ max_iterations > 0
        /\ b # b_other
        /\ b # fmap_zeros_like(b)
        /\ solution[m] = twin[m].solution

====
